---------------------------- MODULE Spec2Model ----------------------------
(***************************************************************************)
(* A model of openff/interchange/components/foyer.py: the potential        *)
(* handlers that ask the foyer engine for atom types and parameters and    *)
(* keep them in slot_map / potentials / charges.                           *)
(*                                                                         *)
(* Strings that the code joins and splits (PotentialKey ids, atom types)   *)
(* are sequences of one-character strings.  A Python dict that the code    *)
(* iterates (slot_map, atom_slots, type_map) is a sequence of              *)
(* [key, val] records in insertion order; a dict that is only indexed      *)
(* (potentials, charges, parameter dicts) is a function.                   *)
(*                                                                         *)
(* The engine is outside the module: each call is given a force field that *)
(* answers every key it is asked about with parameters or with one of      *)
(* foyer's exceptions, and each method is one action that runs the whole   *)
(* method and records its arguments and outcome in call.                   *)
(***************************************************************************)
EXTENDS Integers, Sequences, FiniteSets, TLC

VARIABLES
    handler,     \* the class of the handler instance (fixed at construction)
    slot_map,    \* self.slot_map   : Dict[TopologyKey, PotentialKey]
    potentials,  \* self.potentials : Dict[PotentialKey, Potential]
    charges,     \* self.charges    : Dict[TopologyKey, charge]
    call,        \* the last method call on the handler: name, arguments, outcome
    other_slot_map,  \* slot_map of a second handler instance of the same class
    other_call,      \* the last method call on the second instance
    ncalls       \* number of calls made so far

vars == <<handler, slot_map, potentials, charges, call, other_slot_map, other_call, ncalls>>

-----------------------------------------------------------------------------
(* Bounds *)

\* connections per topology attribute
MaxConnections == 2
\* atoms of the topologies given to the vdW and electrostatics handlers
MaxAtoms == 3
\* magnitudes the engine reports are 1..MaxValue (+ a per-name offset)
MaxValue == 1
\* calls made on the handlers in one behaviour
MaxCalls == 3

-----------------------------------------------------------------------------
(* Python dicts that are iterated: insertion-ordered sequences of items *)

EmptyDict == <<>>

Item(k, v) == [key |-> k, val |-> v]

DictKeys(d) == {d[i].key : i \in DOMAIN d}

DictValues(d) == {d[i].val : i \in DOMAIN d}

DictHas(d, k) == \E i \in DOMAIN d : d[i].key = k

DictGet(d, k) == d[CHOOSE i \in DOMAIN d : d[i].key = k].val

\* mutant: d.setdefault(k, v), an existing key keeps its value
DictSetDefault(d, k, v) ==
    IF DictHas(d, k) THEN d ELSE Append(d, Item(k, v))

\* d[k] = v : an existing key keeps its position, a new key goes last
DictSet(d, k, v) ==
    IF DictHas(d, k)
    THEN [i \in DOMAIN d |-> IF d[i].key = k THEN Item(k, v) ELSE d[i]]
    ELSE Append(d, Item(k, v))

\* dicts that are only indexed: functions
EmptyMap == [x \in {} |-> x]

MapSet(m, k, v) == [x \in DOMAIN m \cup {k} |-> IF x = k THEN v ELSE m[x]]

-----------------------------------------------------------------------------
(* Keys and quantities *)

TopologyKey(atom_indices) == [atom_indices |-> atom_indices]

PotentialKey(id) == [id |-> id]

Potential(parameters) == [parameters |-> parameters]

\* value * unit
Quantity(magnitude, units) == [magnitude |-> magnitude, units |-> units]

POTENTIAL_KEY_SEPARATOR == "-"

\* sep.join(strs)
RECURSIVE join(_, _)
join(sep, strs) ==
    IF Len(strs) = 0 THEN <<>>
    ELSE IF Len(strs) = 1 THEN strs[1]
    ELSE strs[1] \o <<sep>> \o join(sep, Tail(strs))

\* s.split(sep) for a one-character sep
RECURSIVE split(_, _)
split(s, sep) ==
    IF \A i \in DOMAIN s : s[i] # sep
    THEN <<s>>
    ELSE LET i == CHOOSE j \in DOMAIN s :
                      s[j] = sep /\ \A l \in 1..(j - 1) : s[l] # sep
         IN  <<SubSeq(s, 1, i - 1)>> \o split(SubSeq(s, i + 1, Len(s)), sep)

-----------------------------------------------------------------------------
(* The handler classes and their class attributes *)

ConnectedHandlers == {"FoyerHarmonicBondHandler", "FoyerHarmonicAngleHandler", "FoyerRBProperHandler", "FoyerRBImproperHandler", "FoyerPeriodicProperHandler", "FoyerPeriodicImproperHandler"}

\* the values of get_handlers_callable()
Handlers == {"FoyerVDWHandler", "FoyerElectrostaticsHandler"} \cup ConnectedHandlers

\* self.type
type(h) ==
    CASE h = "FoyerVDWHandler" -> "atoms"
      [] h = "FoyerElectrostaticsHandler" -> "Electrostatics"
      [] h = "FoyerHarmonicBondHandler" -> "harmonic_bonds"
      [] h = "FoyerHarmonicAngleHandler" -> "harmonic_angles"
      [] h = "FoyerRBProperHandler" -> "rb_propers"
      [] h = "FoyerRBImproperHandler" -> "rb_impropers"
      [] h = "FoyerPeriodicProperHandler" -> "periodic_propers"
      [] h = "FoyerPeriodicImproperHandler" -> "periodic_impropers"

\* self.connection_attribute
connection_attribute(h) ==
    CASE h = "FoyerHarmonicBondHandler" -> "topology_bonds"
      [] h = "FoyerHarmonicAngleHandler" -> "angles"
      [] h \in {"FoyerRBProperHandler", "FoyerPeriodicProperHandler"} -> "propers"
      [] h \in {"FoyerRBImproperHandler", "FoyerPeriodicImproperHandler"} -> "impropers"
      [] OTHER -> ""

\* mutant: the torsion classes do not override raise_on_missing_params
raise_on_missing_params_not_overridden(h) == TRUE

\* self.raise_on_missing_params: True unless the class overrides it
raise_on_missing_params(h) ==
    h \notin {"FoyerRBProperHandler", "FoyerRBImproperHandler", "FoyerPeriodicProperHandler", "FoyerPeriodicImproperHandler"}

-----------------------------------------------------------------------------
(* Parameter dicts *)

\* The outcome of a call: what it raises ("none" when it returns) and its value.
Returns(v) == [raises |-> "none", value |-> v]

Raises(e) == [raises |-> e, value |-> EmptyMap]

\* mutant: the drop keys are not popped
_copy_params_keeps_drop_keys(params, drop_keys, param_units) ==
    IF \E unit_item \in DOMAIN param_units : unit_item \notin DOMAIN params
    THEN Raises("KeyError")
    ELSE Returns([n \in DOMAIN params |->
                    IF n \in DOMAIN param_units
                    THEN Quantity(params[n], param_units[n])
                    ELSE params[n]])

\* _copy_params(params, *drop_keys, param_units=...)
\* copy, pop the drop keys, attach the units; a name of param_units that the
\* copy lacks is a KeyError
_copy_params(params, drop_keys, param_units) ==
    LET params_copy == [n \in DOMAIN params \ drop_keys |-> params[n]]
    IN  IF \E unit_item \in DOMAIN param_units : unit_item \notin DOMAIN params_copy
        THEN Raises("KeyError")
        ELSE Returns([n \in DOMAIN params_copy |->
                        IF n \in DOMAIN param_units
                        THEN Quantity(params_copy[n], param_units[n])
                        ELSE params_copy[n]])

\* k.upper() for the names of the RB coefficients
upper(k) ==
    CASE k = "c0" -> "C0" [] k = "c1" -> "C1" [] k = "c2" -> "C2"
      [] k = "c3" -> "C3" [] k = "c4" -> "C4" [] k = "c5" -> "C5"
      [] OTHER -> k

\* self.get_params_with_units(params), per class
get_params_with_units(h, params) ==
    CASE h = "FoyerHarmonicBondHandler" ->
            _copy_params(params, {}, [k |-> "kJ/mol/nm**2", length |-> "nm"])
      [] h = "FoyerHarmonicAngleHandler" ->
            IF {"k", "theta"} \subseteq DOMAIN params
            THEN _copy_params([k |-> params["k"], angle |-> params["theta"]], {},
                              [k |-> "kJ/mol/radian**2", angle |-> "dimensionless"])
            ELSE Raises("KeyError")
      [] h \in {"FoyerRBProperHandler", "FoyerRBImproperHandler"} ->
            LET names == {upper(k) : k \in DOMAIN params}
                rb_params == [K \in names |->
                                params[CHOOSE k \in DOMAIN params : upper(k) = K]]
                param_units == [K \in names |-> "kJ/mol"]
            IN  _copy_params(rb_params, {}, param_units)
      [] h \in {"FoyerPeriodicProperHandler", "FoyerPeriodicImproperHandler"} ->
            _copy_params(params, {},
                         [k |-> "kJ/mol/nm**2", phase |-> "dimensionless",
                          periodicity |-> "dimensionless"])

-----------------------------------------------------------------------------
(* The engine (foyer), as the handlers see it *)

\* Atom types the engine assigns.  One of them holds the separator.
AtomTypes == {<<"c">>, <<"c", "-", "h">>}

Values == 1..MaxValue

\* The parameters the engine holds for one key of a group, made from v
EngineParams(group, v) ==
    CASE group = "atoms" -> [charge |-> v, epsilon |-> v + 1, sigma |-> v + 2]
      [] group = "harmonic_bonds" -> [k |-> v, length |-> v + 1]
      [] group = "harmonic_angles" -> [k |-> v, theta |-> v + 1]
      [] group \in {"rb_propers", "rb_impropers"} ->
            [c0 |-> v, c1 |-> v + 1, c2 |-> v + 2, c3 |-> v + 3, c4 |-> v + 4, c5 |-> v + 5]
      [] group \in {"periodic_propers", "periodic_impropers"} ->
            [k |-> v, phase |-> v + 1, periodicity |-> v + 2]

\* What forcefield.get_parameters can answer for one key of a group: the
\* parameters, or one of foyer's exceptions.  ("atoms" has no force
\* generator to miss; its parameters may come without a charge.)
Answers(group) ==
    {Returns(EngineParams(group, v)) : v \in Values}
    \cup {Raises("MissingParametersError")}
    \cup (IF group = "atoms"
          THEN {Returns([epsilon |-> 1, sigma |-> 1]), Returns([charge |-> 1, epsilon |-> 1])}
          ELSE {Raises("MissingForceError")})

\* A force field, as far as a call can see it: an answer for every key of
\* the group that the call asks about
Forcefields(group, keys) == [{<<group, key>> : key \in keys} -> Answers(group)]

\* forcefield.get_parameters(group, key)
get_parameters(forcefield, group, key) == forcefield[<<group, key>>]

-----------------------------------------------------------------------------
(* FoyerVDWHandler *)

\* mutant: store_matches starts from a fresh slot_map
FoyerVDWHandler_store_matches_fresh(self_slot_map, type_map) ==
    [i \in DOMAIN type_map |->
        Item(TopologyKey(<<type_map[i].key>>), PotentialKey(type_map[i].val["atomtype"]))]

\* store_matches, after find_atomtypes has returned type_map:
\*   for key, val in type_map.items(): self.slot_map[(key,)] = PotentialKey(val["atomtype"])
RECURSIVE FoyerVDWHandler_store_matches(_, _)
FoyerVDWHandler_store_matches(self_slot_map, type_map) ==
    IF type_map = <<>> THEN self_slot_map
    ELSE LET key == Head(type_map).key
             val == Head(type_map).val
             top_key == TopologyKey(<<key>>)
         IN  FoyerVDWHandler_store_matches(
                 DictSet(self_slot_map, top_key, PotentialKey(val["atomtype"])),
                 Tail(type_map))

\* store_potentials: for top_key in self.slot_map, from item i on
RECURSIVE FoyerVDWHandler_store_potentials_loop(_, _, _, _)
FoyerVDWHandler_store_potentials_loop(self_slot_map, self_potentials, forcefield, i) ==
    IF i > Len(self_slot_map)
    THEN [potentials |-> self_potentials, raises |-> "none"]
    ELSE LET pot_key == self_slot_map[i].val
             answer == get_parameters(forcefield, "atoms", pot_key.id)
             atom_params == _copy_params(answer.value, {"charge"},
                                         [epsilon |-> "kJ/mol", sigma |-> "nm"])
         IN  IF answer.raises # "none"
             THEN [potentials |-> self_potentials, raises |-> answer.raises]
             ELSE IF atom_params.raises # "none"
             THEN [potentials |-> self_potentials, raises |-> atom_params.raises]
             ELSE FoyerVDWHandler_store_potentials_loop(
                      self_slot_map,
                      MapSet(self_potentials, pot_key, Potential(atom_params.value)),
                      forcefield, i + 1)

FoyerVDWHandler_store_potentials(self_slot_map, self_potentials, forcefield) ==
    FoyerVDWHandler_store_potentials_loop(self_slot_map, self_potentials, forcefield, 1)

-----------------------------------------------------------------------------
(* FoyerElectrostaticsHandler *)

\* store_charges: for top_key, pot_key in atom_slots.items(), from item i on
RECURSIVE store_charges_loop(_, _, _, _)
store_charges_loop(self_charges, atom_slots, forcefield, i) ==
    IF i > Len(atom_slots)
    THEN [charges |-> self_charges, raises |-> "none"]
    ELSE LET top_key == atom_slots[i].key
             pot_key == atom_slots[i].val
             foyer_params == get_parameters(forcefield, "atoms", pot_key.id)
         IN  IF foyer_params.raises # "none"
             THEN [charges |-> self_charges, raises |-> foyer_params.raises]
             ELSE IF "charge" \notin DOMAIN foyer_params.value
             THEN [charges |-> self_charges, raises |-> "KeyError"]
             ELSE store_charges_loop(
                      MapSet(self_charges, top_key,
                             Quantity(foyer_params.value["charge"], "elementary_charge")),
                      atom_slots, forcefield, i + 1)

\* mutant: store_charges starts from fresh charges
store_charges_fresh(self_charges, atom_slots, forcefield) ==
    store_charges_loop(EmptyMap, atom_slots, forcefield, 1)

store_charges(self_charges, atom_slots, forcefield) ==
    store_charges_loop(self_charges, atom_slots, forcefield, 1)

-----------------------------------------------------------------------------
(* FoyerConnectedAtomsHandler *)

\* _get_potential_key_id(atom_slots, idx); a missing key is a KeyError,
\* which the caller tests with DictHas before it asks
_get_potential_key_id(atom_slots, idx) ==
    LET top_key == TopologyKey(<<idx>>)
    IN  DictGet(atom_slots, top_key).id

\* mutant: store_matches returns after the first connection
FoyerConnectedAtomsHandler_store_matches_first_only(self_slot_map, atom_slots, connections) ==
    IF connections = <<>>
    THEN [slot_map |-> self_slot_map, raises |-> "none"]
    ELSE LET atoms_indices == Head(connections)
             pot_key_ids == [n \in DOMAIN atoms_indices |->
                               _get_potential_key_id(atom_slots, atoms_indices[n])]
         IN  IF \E n \in DOMAIN atoms_indices :
                    ~DictHas(atom_slots, TopologyKey(<<atoms_indices[n]>>))
             THEN [slot_map |-> self_slot_map, raises |-> "KeyError"]
             ELSE [slot_map |-> DictSet(self_slot_map, TopologyKey(atoms_indices),
                                  PotentialKey(join(POTENTIAL_KEY_SEPARATOR, pot_key_ids))),
                   raises |-> "none"]

\* store_matches: for connection in getattr(topology, self.connection_attribute).
\* A connection is given by the topology_atom_index of its atoms, in order
\* (read from connection.atoms or from the connection itself).
RECURSIVE FoyerConnectedAtomsHandler_store_matches_loop(_, _, _)
FoyerConnectedAtomsHandler_store_matches_loop(self_slot_map, atom_slots, connections) ==
    IF connections = <<>>
    THEN [slot_map |-> self_slot_map, raises |-> "none"]
    ELSE LET atoms_indices == Head(connections)
             top_key == TopologyKey(atoms_indices)
             pot_key_ids == [n \in DOMAIN atoms_indices |->
                               _get_potential_key_id(atom_slots, atoms_indices[n])]
         IN  IF \E n \in DOMAIN atoms_indices :
                    ~DictHas(atom_slots, TopologyKey(<<atoms_indices[n]>>))
             THEN [slot_map |-> self_slot_map, raises |-> "KeyError"]
             ELSE FoyerConnectedAtomsHandler_store_matches_loop(
                      DictSet(self_slot_map, top_key,
                              PotentialKey(join(POTENTIAL_KEY_SEPARATOR, pot_key_ids))),
                      atom_slots, Tail(connections))

FoyerConnectedAtomsHandler_store_matches(h, self_slot_map, atom_slots, topology) ==
    FoyerConnectedAtomsHandler_store_matches_loop(
        self_slot_map, atom_slots, topology[connection_attribute(h)])

\* mutant: MissingForceError is not caught
on_MissingForceError_not_caught(items, self_potentials, asked) ==
    [slot_map |-> items, potentials |-> self_potentials, raises |-> "MissingForceError",
     queried |-> asked]

\* mutant: only slot_map is emptied
on_MissingForceError_keeps_potentials(items, self_potentials, asked) ==
    [slot_map |-> EmptyDict, potentials |-> self_potentials, raises |-> "none",
     queried |-> asked]

\* except MissingForceError: self.slot_map = {}; self.potentials = {}; return
\* (items and self_potentials are what the handler holds when it is raised)
on_MissingForceError(items, self_potentials, asked) ==
    [slot_map |-> EmptyDict, potentials |-> EmptyMap, raises |-> "none", queried |-> asked]

\* store_potentials: for _, pot_key in self.slot_map.items(), from item i on.
\* items is the dict the loop was started on; queried lists the keys given to
\* forcefield.get_parameters so far.
RECURSIVE FoyerConnectedAtomsHandler_store_potentials_loop(_, _, _, _, _, _)
FoyerConnectedAtomsHandler_store_potentials_loop(h, items, self_potentials, forcefield, i, queried) ==
    IF i > Len(items)
    THEN [slot_map |-> items, potentials |-> self_potentials, raises |-> "none",
          queried |-> queried]
    ELSE LET pot_key == items[i].val
             key == split(pot_key.id, POTENTIAL_KEY_SEPARATOR)
             answer == get_parameters(forcefield, type(h), key)
             params == get_params_with_units(h, answer.value)
             asked == Append(queried, key)
         IN  IF answer.raises = "MissingForceError"
             THEN on_MissingForceError(items, self_potentials, asked)
             ELSE IF answer.raises = "MissingParametersError"
             THEN IF raise_on_missing_params(h)
                  THEN [slot_map |-> items, potentials |-> self_potentials,
                        raises |-> "MissingParametersError", queried |-> asked]
                  ELSE FoyerConnectedAtomsHandler_store_potentials_loop(
                           h, items, self_potentials, forcefield, i + 1, asked)
             ELSE IF params.raises # "none"
             THEN [slot_map |-> items, potentials |-> self_potentials,
                   raises |-> params.raises, queried |-> asked]
             ELSE FoyerConnectedAtomsHandler_store_potentials_loop(
                      h, items, MapSet(self_potentials, pot_key, Potential(params.value)),
                      forcefield, i + 1, asked)

FoyerConnectedAtomsHandler_store_potentials(h, self_slot_map, self_potentials, forcefield) ==
    FoyerConnectedAtomsHandler_store_potentials_loop(
        h, self_slot_map, self_potentials, forcefield, 1, <<>>)

-----------------------------------------------------------------------------
(* Arguments of the calls *)

\* the atoms i, i+1, ... of a connection of a atoms
Window(i, a) == [n \in 1..a |-> i + n - 1]

\* an improper of the atoms i..i+3, the central atom i+1 first
ImproperWindow(i) == <<i + 1, i, i + 2, i + 3>>

\* A topology with n connections under each connection attribute
Topology(n) ==
    [topology_bonds |-> [c \in 1..n |-> Window(c - 1, 2)],
     angles |-> [c \in 1..n |-> Window(c - 1, 3)],
     propers |-> [c \in 1..n |-> Window(c - 1, 4)],
     impropers |-> [c \in 1..n |-> ImproperWindow(c - 1)]]

Topologies == {Topology(n) : n \in 0..MaxConnections}

\* atoms in a connection of the handler's connection attribute
Arity(h) ==
    CASE connection_attribute(h) = "topology_bonds" -> 2
      [] connection_attribute(h) = "angles" -> 3
      [] OTHER -> 4

\* The types of the atoms 0..m-1 of a chain whose atoms alternate between two
\* (possibly equal) types
Typings(m) ==
    {[i \in 1..m |-> IF i % 2 = 1 THEN pattern[1] ELSE pattern[2]] :
        pattern \in AtomTypes \X AtomTypes}

\* atom_slots, the slot_map of a vdW handler: the atoms 0..m-1, each with a type
AtomSlots(m) ==
    {[i \in 1..m |-> Item(TopologyKey(<<i - 1>>), PotentialKey(f[i]))] : f \in Typings(m)}

\* type_map, the answer of find_atomtypes for a topology of m atoms
TypeMaps(m) ==
    {[i \in 1..m |-> Item(i - 1, [atomtype |-> f[i]])] : f \in Typings(m)}

\* atoms of a topology whose connections are those of handler class h
NumAtoms(h) == MaxConnections + Arity(h) - 1

-----------------------------------------------------------------------------
(* The state machine: a handler (and a second instance of its class), and  *)
(* any sequence of at most MaxCalls calls                                  *)

NoCall == [op |-> "__init__", raises |-> "none"]

Init ==
    /\ handler \in Handlers
    /\ slot_map = EmptyDict
    /\ potentials = EmptyMap
    /\ charges = EmptyMap
    /\ call = NoCall
    /\ other_slot_map = EmptyDict
    /\ other_call = NoCall
    /\ ncalls = 0

Called ==
    /\ ncalls < MaxCalls
    /\ ncalls' = ncalls + 1

\* FoyerVDWHandler.store_matches(forcefield, topology)
VDWStoreMatches ==
    /\ handler = "FoyerVDWHandler"
    /\ Called
    /\ \E m \in 0..MaxAtoms : \E type_map \in TypeMaps(m) :
          /\ slot_map' = FoyerVDWHandler_store_matches(slot_map, type_map)
          /\ call' = [op |-> "store_matches", type_map |-> type_map, raises |-> "none"]
    /\ UNCHANGED <<handler, potentials, charges, other_slot_map, other_call>>

\* FoyerVDWHandler.store_potentials(forcefield)
VDWStorePotentials ==
    /\ handler = "FoyerVDWHandler"
    /\ Called
    /\ \E forcefield \in Forcefields("atoms", {pk.id : pk \in DictValues(slot_map)}) :
       \E out \in {FoyerVDWHandler_store_potentials(slot_map, potentials, forcefield)} :
          /\ potentials' = out.potentials
          /\ call' = [op |-> "store_potentials", forcefield |-> forcefield,
                      raises |-> out.raises]
    /\ UNCHANGED <<handler, slot_map, charges, other_slot_map, other_call>>

\* FoyerElectrostaticsHandler.store_charges(atom_slots, forcefield)
StoreCharges ==
    /\ handler = "FoyerElectrostaticsHandler"
    /\ Called
    /\ \E m \in 0..MaxAtoms : \E atom_slots \in AtomSlots(m) :
       \E forcefield \in Forcefields("atoms", {pk.id : pk \in DictValues(atom_slots)}) :
       \E out \in {store_charges(charges, atom_slots, forcefield)} :
          /\ charges' = out.charges
          /\ call' = [op |-> "store_charges", atom_slots |-> atom_slots,
                      forcefield |-> forcefield, raises |-> out.raises]
    /\ UNCHANGED <<handler, slot_map, potentials, other_slot_map, other_call>>

\* FoyerConnectedAtomsHandler.store_matches(atom_slots, topology)
StoreMatches ==
    /\ handler \in ConnectedHandlers
    /\ Called
    /\ \E topology \in Topologies :
       \E m \in (NumAtoms(handler) - 1)..NumAtoms(handler) : \E atom_slots \in AtomSlots(m) :
       \E out \in {FoyerConnectedAtomsHandler_store_matches(
                       handler, slot_map, atom_slots, topology)} :
          /\ slot_map' = out.slot_map
          /\ call' = [op |-> "store_matches", atom_slots |-> atom_slots,
                      topology |-> topology, raises |-> out.raises]
    /\ UNCHANGED <<handler, potentials, charges, other_slot_map, other_call>>

\* FoyerConnectedAtomsHandler.store_potentials(forcefield)
StorePotentials ==
    /\ handler \in ConnectedHandlers
    /\ Called
    /\ \E forcefield \in Forcefields(type(handler),
             {split(pk.id, POTENTIAL_KEY_SEPARATOR) : pk \in DictValues(slot_map)}) :
       \E out \in {FoyerConnectedAtomsHandler_store_potentials(
                       handler, slot_map, potentials, forcefield)} :
          /\ slot_map' = out.slot_map
          /\ potentials' = out.potentials
          /\ call' = [op |-> "store_potentials", forcefield |-> forcefield,
                      raises |-> out.raises, queried |-> out.queried]
    /\ UNCHANGED <<handler, charges, other_slot_map, other_call>>

Next ==
    \/ VDWStoreMatches
    \/ VDWStorePotentials
    \/ StoreCharges
    \/ StoreMatches
    \/ StorePotentials

Spec == Init /\ [][Next]_vars

\* The second instance is given the call that the first one received last
\* (so its calls are some of the first one's calls, in their order)
OtherVDWStoreMatches ==
    /\ handler = "FoyerVDWHandler"
    /\ call.op = "store_matches"
    /\ Called
    /\ other_slot_map' = FoyerVDWHandler_store_matches(other_slot_map, call.type_map)
    /\ other_call' = [op |-> "store_matches", type_map |-> call.type_map, raises |-> "none"]
    /\ UNCHANGED <<handler, slot_map, potentials, charges, call>>

OtherStoreMatches ==
    /\ handler \in ConnectedHandlers
    /\ call.op = "store_matches"
    /\ Called
    /\ \E out \in {FoyerConnectedAtomsHandler_store_matches(
                       handler, other_slot_map, call.atom_slots, call.topology)} :
          /\ other_slot_map' = out.slot_map
          /\ other_call' = [op |-> "store_matches", atom_slots |-> call.atom_slots,
                            topology |-> call.topology, raises |-> out.raises]
    /\ UNCHANGED <<handler, slot_map, potentials, charges, call>>

\* Two handlers of one class: the first is given any store_matches calls, the
\* second some of the same calls
NextPair ==
    \/ VDWStoreMatches
    \/ StoreMatches
    \/ OtherVDWStoreMatches
    \/ OtherStoreMatches

SpecPair == Init /\ [][NextPair]_vars

-----------------------------------------------------------------------------
(* Vocabulary of the properties *)

\* d1 == d2 for dicts: the same keys with the same values, in any order
DictEq(d1, d2) ==
    /\ DictKeys(d1) = DictKeys(d2)
    /\ \A k \in DictKeys(d1) : DictGet(d1, k) = DictGet(d2, k)

\* the atom-type ids that atom_slots assigns to the atoms of a connection
TypesOf(atom_slots, atoms_indices) ==
    [n \in DOMAIN atoms_indices |->
        DictGet(atom_slots, TopologyKey(<<atoms_indices[n]>>)).id]

\* the connections of the last store_matches call of a connected handler
Connections(c) == c.topology[connection_attribute(handler)]

\* the step just taken is a call of op on the (first) handler
Step(op) == ncalls' = ncalls + 1 /\ call'.op = op

\* the engine's answer to a key, in the force field of call c
Answer(c, key) == c.forcefield[<<type(handler), key>>].raises

\* the engine raised e for one of the keys it was asked in call c
EngineRaised(c, e) == \E i \in DOMAIN c.queried : Answer(c, c.queried[i]) = e

-----------------------------------------------------------------------------
(* C1 *)

\* C1: after a store_matches call of a connected handler that returns, every
\* connection of the topology attribute named by connection_attribute has a
\* slot_map entry: its key is the tuple of the connection's atom indices, in
\* order, and its PotentialKey id is the atom-type ids that atom_slots gives
\* those atoms, in the same order, joined by "-".
C1_StoreMatchesJoinsTypes ==
    (handler \in ConnectedHandlers /\ call.op = "store_matches" /\ call.raises = "none") =>
        \A c \in DOMAIN Connections(call) :
            LET atoms_indices == Connections(call)[c]
                top_key == TopologyKey(atoms_indices)
            IN  /\ DictHas(slot_map, top_key)
                /\ DictGet(slot_map, top_key) =
                       PotentialKey(join("-", TypesOf(call.atom_slots, atoms_indices)))

\* a returned store_matches over a topology of several connections whose
\* atoms have different types
C1_Witness ==
    /\ handler \in ConnectedHandlers
    /\ call.op = "store_matches"
    /\ call.raises = "none"
    /\ Len(Connections(call)) >= 2
    /\ \E c \in DOMAIN Connections(call) :
          LET types == TypesOf(call.atom_slots, Connections(call)[c])
          IN  types[1] # types[2]

-----------------------------------------------------------------------------
(* C2 *)

\* C2: a store_matches call of the vdW handler maps, for every atom index of
\* the engine's type map, the key (index,) to the PotentialKey whose id is the
\* atom type the engine gave that atom, and writes no entry for an index the
\* engine did not type (such an entry is as it was before the call).
C2_VDWStoreMatches ==
    [][(handler = "FoyerVDWHandler" /\ Step("store_matches")) =>
        LET type_map == call'.type_map
            typed == {TopologyKey(<<k>>) : k \in DictKeys(type_map)}
        IN  /\ \A i \in DOMAIN type_map :
                  LET top_key == TopologyKey(<<type_map[i].key>>)
                  IN  /\ DictHas(slot_map', top_key)
                      /\ DictGet(slot_map', top_key) =
                             PotentialKey(type_map[i].val["atomtype"])
            /\ \A top_key \in (DictKeys(slot_map) \cup DictKeys(slot_map')) \ typed :
                  /\ DictHas(slot_map, top_key)
                  /\ DictHas(slot_map', top_key)
                  /\ DictGet(slot_map', top_key) = DictGet(slot_map, top_key)]_vars

\* a store_matches call that typed some atoms while slot_map also holds atoms
\* it did not type
C2_Witness ==
    /\ handler = "FoyerVDWHandler"
    /\ call.op = "store_matches"
    /\ Len(call.type_map) >= 1
    /\ Len(slot_map) > Len(call.type_map)

-----------------------------------------------------------------------------
(* C3 *)

\* C3: when the engine raises MissingForceError for a key during
\* store_potentials of a connected handler, the call returns normally, no key
\* after that one is processed, and slot_map and potentials are both empty
\* afterwards, whatever they held before and whatever the call stored earlier.
C3_MissingForceSuppressed ==
    [][(handler \in ConnectedHandlers /\ Step("store_potentials")
            /\ EngineRaised(call', "MissingForceError")) =>
        /\ call'.raises = "none"
        /\ slot_map' = EmptyDict
        /\ potentials' = EmptyMap
        /\ \E j \in DOMAIN slot_map :
              /\ Len(call'.queried) = j
              /\ Answer(call', call'.queried[j]) = "MissingForceError"
              /\ \A i \in 1..(j - 1) :
                    Answer(call', call'.queried[i]) # "MissingForceError"]_vars

\* the engine raised MissingForceError for the second key, after the first
\* key's parameters had been stored in the same call
C3_Witness ==
    /\ handler \in ConnectedHandlers
    /\ call.op = "store_potentials"
    /\ Len(call.queried) = 2
    /\ Answer(call, call.queried[1]) = "none"
    /\ Answer(call, call.queried[2]) = "MissingForceError"
    /\ slot_map = EmptyDict
    /\ potentials = EmptyMap

-----------------------------------------------------------------------------
(* C4 *)

\* the handlers the claim names as passing the error through; the others are
\* the RB and periodic proper and improper torsion handlers
BondAndAngleHandlers == {"FoyerHarmonicBondHandler", "FoyerHarmonicAngleHandler"}

\* the keys of slot_map for which the engine raised MissingParametersError
LackingParams(c, items) ==
    {items[i].val : i \in {j \in DOMAIN items : j <= Len(c.queried)
                              /\ Answer(c, c.queried[j]) = "MissingParametersError"}}

\* a MissingParametersError is passed to the caller at the first key that
\* lacks parameters
C4_PassedThrough ==
    /\ call'.raises = "MissingParametersError"
    /\ Answer(call', call'.queried[Len(call'.queried)]) = "MissingParametersError"
    /\ \A i \in 1..(Len(call'.queried) - 1) :
          Answer(call', call'.queried[i]) # "MissingParametersError"

\* a suppressed MissingParametersError stores nothing for its key
C4_NoEntryWritten ==
    /\ call'.raises = "none"
    /\ \A pot_key \in LackingParams(call', slot_map) :
          pot_key \in DOMAIN potentials' =>
              (pot_key \in DOMAIN potentials /\ potentials'[pot_key] = potentials[pot_key])

\* slot_map is as before and every key of it was given to the engine
C4_AllProcessed ==
    /\ slot_map' = slot_map
    /\ Len(call'.queried) = Len(slot_map)

\* C4 as stated: in store_potentials of a connected handler a
\* MissingParametersError from the engine is passed through at the first key
\* that lacks parameters when raise_on_missing_params is true (bonds, angles);
\* when it is false (RB and periodic torsions) it is suppressed, that key gets
\* no potentials entry, slot_map is left unchanged and every remaining key of
\* slot_map is still processed.
C4_Original ==
    [][(handler \in ConnectedHandlers /\ Step("store_potentials")
            /\ EngineRaised(call', "MissingParametersError")) =>
        IF handler \in BondAndAngleHandlers
        THEN C4_PassedThrough
        ELSE C4_NoEntryWritten /\ C4_AllProcessed]_vars

\* C4 as amended: as C4, except that after a suppressed
\* MissingParametersError slot_map is left unchanged and every remaining key is
\* processed only if the engine raises no MissingForceError for a later key of
\* the same call (then the call ends there with slot_map and potentials
\* emptied).
C4_MissingParamsSelective ==
    [][(handler \in ConnectedHandlers /\ Step("store_potentials")
            /\ EngineRaised(call', "MissingParametersError")) =>
        IF handler \in BondAndAngleHandlers
        THEN C4_PassedThrough
        ELSE /\ C4_NoEntryWritten
             /\ \/ EngineRaised(call', "MissingForceError")
                \/ C4_AllProcessed]_vars

\* a torsion handler suppressed a MissingParametersError for the first key and
\* went on to store the parameters of the second
C4_Witness ==
    /\ handler \in ConnectedHandlers \ BondAndAngleHandlers
    /\ call.op = "store_potentials"
    /\ call.raises = "none"
    /\ Len(call.queried) = 2
    /\ Answer(call, call.queried[1]) = "MissingParametersError"
    /\ Answer(call, call.queried[2]) = "none"
    /\ slot_map[1].val \notin DOMAIN potentials
    /\ slot_map[2].val \in DOMAIN potentials

-----------------------------------------------------------------------------
(* C5 *)

\* both instances received the same final store_matches call
SameFinalStoreMatches ==
    /\ call.op = "store_matches"
    /\ other_call.op = "store_matches"
    /\ other_call = call

\* the TopologyKeys a store_matches call c writes
WrittenKeys(c) ==
    IF handler = "FoyerVDWHandler"
    THEN {TopologyKey(<<k>>) : k \in DictKeys(c.type_map)}
    ELSE {TopologyKey(Connections(c)[i]) : i \in DOMAIN Connections(c)}

\* C5 as stated: the slot_map that store_matches leaves is determined by the
\* arguments of that call alone: two handlers that receive the same final
\* store_matches call end with the same slot_map, whatever store_matches calls
\* either received before.
C5_Original ==
    SameFinalStoreMatches => DictEq(slot_map, other_slot_map)

\* C5 as amended: the entries that store_matches writes are determined by the
\* arguments of that call alone: two handlers that receive the same final
\* store_matches call (returning normally) hold the same entry for every
\* TopologyKey of that call (each connection of its topology, each atom of
\* its type map); entries that earlier calls left under other keys stay, so
\* the two slot_maps may differ there.
C5_WrittenEntriesAgree ==
    (SameFinalStoreMatches /\ call.raises = "none") =>
        \A top_key \in WrittenKeys(call) :
            /\ DictHas(slot_map, top_key)
            /\ DictHas(other_slot_map, top_key)
            /\ DictGet(slot_map, top_key) = DictGet(other_slot_map, top_key)

\* two handlers with the same final store_matches call that wrote entries,
\* while their slot_maps differ because of an earlier call
C5_Witness ==
    /\ SameFinalStoreMatches
    /\ call.raises = "none"
    /\ WrittenKeys(call) # {}
    /\ ~DictEq(slot_map, other_slot_map)

-----------------------------------------------------------------------------
(* C6 *)

\* the engine's "atoms" parameters for a PotentialKey, in the force field of
\* call c
AtomParams(c, pot_key) == c.forcefield[<<"atoms", pot_key.id>>].value

\* C6: after a store_potentials call of the vdW handler that returns normally,
\* every PotentialKey that is a value of slot_map is a key of potentials; its
\* parameters are the engine's "atoms" parameters of that atom type without
\* "charge", with epsilon in kJ/mol and sigma in nm; atoms of one atom type
\* have one PotentialKey and so one entry.
C6_VDWStorePotentials ==
    (handler = "FoyerVDWHandler" /\ call.op = "store_potentials" /\ call.raises = "none") =>
        \A pot_key \in DictValues(slot_map) :
            /\ pot_key \in DOMAIN potentials
            /\ LET parameters == potentials[pot_key].parameters
                   atom_params == AtomParams(call, pot_key)
               IN  /\ DOMAIN parameters = DOMAIN atom_params \ {"charge"}
                   /\ {"epsilon", "sigma"} \subseteq DOMAIN parameters
                   /\ parameters["epsilon"] = Quantity(atom_params["epsilon"], "kJ/mol")
                   /\ parameters["sigma"] = Quantity(atom_params["sigma"], "nm")

\* a returned store_potentials where two atoms share one atom type, a third
\* has another, and the engine reported a charge
C6_Witness ==
    /\ handler = "FoyerVDWHandler"
    /\ call.op = "store_potentials"
    /\ call.raises = "none"
    /\ Len(slot_map) = 3
    /\ slot_map[1].val = slot_map[3].val
    /\ slot_map[1].val # slot_map[2].val
    /\ "charge" \in DOMAIN AtomParams(call, slot_map[1].val)
    /\ Cardinality(DOMAIN potentials) = 2

-----------------------------------------------------------------------------
(* C7 *)

-----------------------------------------------------------------------------
(* C8 *)

\* every key of potentials is the PotentialKey of a slot_map entry
PotentialsKeysAreMapped ==
    \A pot_key \in DOMAIN potentials : pot_key \in DictValues(slot_map)

\* the step replaces the PotentialKey of an entry that slot_map already has
Retyped ==
    \E i \in DOMAIN slot_map :
        /\ DictHas(slot_map', slot_map[i].key)
        /\ DictGet(slot_map', slot_map[i].key) # slot_map[i].val

\* C8 as stated: in every state that store_matches and store_potentials calls
\* of a connected handler reach, every key of potentials is the PotentialKey
\* of at least one slot_map entry.
C8_Original ==
    handler \in ConnectedHandlers => PotentialsKeysAreMapped

\* C8 as amended: every call of a connected handler keeps "every key of
\* potentials is the PotentialKey of a slot_map entry", except a
\* store_matches call that replaces the PotentialKey of an entry slot_map
\* already has: the replaced key's parameters stay in potentials.
C8_KeptUnlessRetyped ==
    [][(handler \in ConnectedHandlers /\ PotentialsKeysAreMapped /\ ~Retyped) =>
        PotentialsKeysAreMapped']_vars

\* a store_matches call made while potentials holds parameters, after which
\* every key of potentials is still mapped
C8_Witness ==
    /\ handler \in ConnectedHandlers
    /\ call.op = "store_matches"
    /\ call.raises = "none"
    /\ Len(Connections(call)) >= 1
    /\ potentials # EmptyMap
    /\ PotentialsKeysAreMapped

-----------------------------------------------------------------------------
(* C9 *)

\* C9: the key that store_potentials gives the engine for a slot_map entry
\* (the PotentialKey id split on "-") is the sequence of atom-type ids that
\* the store_matches call before it joined for that connection, with the
\* length and order of the connection's atoms.
C9_KeyRoundTrip ==
    [][(handler \in ConnectedHandlers /\ Step("store_potentials")
            /\ call.op = "store_matches" /\ call.raises = "none") =>
        \A i \in DOMAIN call'.queried :
            (\E c \in DOMAIN Connections(call) : Connections(call)[c] = slot_map[i].key.atom_indices)
                => call'.queried[i] = TypesOf(call.atom_slots, slot_map[i].key.atom_indices)]_vars

=============================================================================
